---- MODULE Spec2Model ----
(***************************************************************************)
(* Model of app.py, the Streamlit script of the Multi-Step AI Agent.       *)
(*                                                                         *)
(* Streamlit executes the whole script from top to bottom on every user    *)
(* interaction; what survives from one execution to the next is the widget *)
(* state (the radio, the file uploader, the text input) and                *)
(* st.session_state (summaries, logs).  Each action below is one user      *)
(* interaction followed by the complete script execution it triggers.      *)
(*                                                                         *)
(* A Python str is a sequence of one-character strings.                    *)
(***************************************************************************)
EXTENDS Integers, Sequences, FiniteSets, TLC

VARIABLES
    source_type,     \* st.radio "Choose Source:"                 (line 61)
    uploaded_files,  \* st.file_uploader value, in upload order   (line 67)
    sheet_url,       \* st.text_input value                       (line 81)
    has_summaries,   \* "summaries" in st.session_state
    summaries,       \* st.session_state.summaries: name -> summary
    logs,            \* st.session_state.logs
    raw_text,        \* module variable raw_text of the last execution
    calls,           \* summarizer requests made by the last execution
    screen,          \* what the last execution rendered
    request,         \* inputs of the execution that last ran the workflow
    library,         \* the folder of PDF files the user has at hand
    arg,             \* input of the pure function under study
    res              \* its result

vars == <<source_type, uploaded_files, sheet_url, has_summaries, summaries,
          logs, raw_text, calls, screen, request, library, arg, res>>

appVars == <<source_type, uploaded_files, sheet_url, has_summaries, summaries,
             logs, raw_text, calls, screen, request, library>>

-----------------------------------------------------------------------------
(* Bounds of the model.                                                    *)

\* Largest number of files held by the uploader.
MaxFiles == 2

\* Largest number of free tokens at either end of a ranking harness input.
MaxTokens == 2

\* Largest number of text pieces concatenated by the filter harness.
MaxPieces == 3

\* Characters a harness text extends around a truncation limit.
MaxOver == 3

-----------------------------------------------------------------------------
(* Program constants.                                                      *)

\* file_text[:25000]
PDF_LIMIT == 25000

\* raw_text[:30000]
SHEET_LIMIT == 30000

\* Counter(filtered_words).most_common(5)
TOP_N == 5

\* len(w) > 3
MIN_LENGTH == 3

\* sheet_name = "Google_Sheet_Data"
SHEET_NAME == "Google_Sheet_Data"

PDF_SOURCE == "PDF(s) Upload"

SHEETS_SOURCE == "Google Sheets"

\* stop_words = {'the', 'and', ...}
stop_words ==
    { <<"t","h","e">>, <<"a","n","d">>, <<"o","f">>, <<"t","o">>,
      <<"i","n">>, <<"i","s">>, <<"i","t">>, <<"t","h","i","s">>,
      <<"t","h","a","t">>, <<"w","i","t","h">>, <<"f","o","r">>,
      <<"w","a","s">>, <<"o","n">>, <<"a","s">> }

-----------------------------------------------------------------------------
(* Python string primitives.                                               *)

Min(a, b) == IF a < b THEN a ELSE b

NL == "\n"

UpperCase ==
    <<"A","B","C","D","E","F","G","H","I","J","K","L","M",
      "N","O","P","Q","R","S","T","U","V","W","X","Y","Z">>

LowerCase ==
    <<"a","b","c","d","e","f","g","h","i","j","k","l","m",
      "n","o","p","q","r","s","t","u","v","w","x","y","z">>

Digits == {"0","1","2","3","4","5","6","7","8","9"}

Range(f) == { f[i] : i \in DOMAIN f }

UpperSet == Range(UpperCase)

ToLower == [c \in UpperSet |-> LowerCase[CHOOSE i \in 1..26 : UpperCase[i] = c]]

\* str.lower() on one character
LowerChar(c) == IF c \in UpperSet THEN ToLower[c] ELSE c

\* str.lower(): character by character, as a sequence again
Lower(s) == <<>> \o [i \in 1..Len(s) |-> LowerChar(s[i])]

WordChars == UpperSet \cup Range(LowerCase) \cup Digits \cup {"_"}

\* the regex class \w
IsWordChar(c) == c \in WordChars

\* a slice that is one character too long
SliceSkew(s, n) == SubSeq(s, 1, Min(n + 1, Len(s)))

\* the slice s[:n]
Slice(s, n) == SubSeq(s, 1, Min(n, Len(s)))

\* a run of n blanks
Pad(n) == <<>> \o [i \in 1..n |-> " "]

-----------------------------------------------------------------------------
(* Keyword analysis of the dashboard section.                              *)

\* the positions of s where \w matches
WordPositions(s) == { i \in 1..Len(s) : IsWordChar(s[i]) }

\* first position >= pos where \w matches, 0 when there is none
MatchStart(at, pos) ==
    LET cand == { i \in at : i >= pos }
    IN  IF cand = {} THEN 0
        ELSE CHOOSE i \in cand : \A k \in cand : i <= k

\* last position of the greedy match of \w+ that starts at start
MatchEnd(at, start) ==
    CHOOSE j \in at :
        /\ j >= start
        /\ \A k \in start..j : k \in at
        /\ (j + 1) \notin at

\* the scan of findall: leftmost match from pos, then on from its end
RECURSIVE FindAllFrom(_, _, _)
FindAllFrom(s, at, pos) ==
    LET start == MatchStart(at, pos)
    IN  IF start = 0 THEN <<>>
        ELSE LET end == MatchEnd(at, start)
             IN  <<SubSeq(s, start, end)>> \o FindAllFrom(s, at, end + 1)

\* re.findall(r'\w+', s)
FindAll(s) == FindAllFrom(s, WordPositions(s), 1)

\* the words of the text as written, not lowercased
WordsNoLower(text) == FindAll(text)

\* words = re.findall(r'\w+', raw_text.lower())
Words(text) == FindAll(Lower(text))

KeepWord(w) == w \notin stop_words /\ Len(w) > MIN_LENGTH

\* filtered_words = [w for w in words if w not in stop_words and len(w) > 3]
FilterWords(words) == SelectSeq(words, KeepWord)

\* Counter(seq): the distinct elements in order of first appearance, each
\* with its number of occurrences (a dict keeps insertion order)
RECURSIVE Counter(_)
Counter(seq) ==
    IF seq = <<>> THEN <<>>
    ELSE LET init == Counter(SubSeq(seq, 1, Len(seq) - 1))
             w    == seq[Len(seq)]
             hit  == { i \in 1..Len(init) : init[i][1] = w }
         IN  IF hit = {}
             THEN Append(init, <<w, 1>>)
             ELSE [i \in 1..Len(init) |->
                      IF i \in hit THEN <<w, init[i][2] + 1>> ELSE init[i]]

\* sorted(items, key=count, reverse=True): a stable sort, so items of equal
\* count keep the order they had
InsertByCount(sorted, item) ==
    LET before == { i \in 1..Len(sorted) : sorted[i][2] >= item[2] }
        k      == Cardinality(before)
    IN  SubSeq(sorted, 1, k) \o <<item>> \o SubSeq(sorted, k + 1, Len(sorted))

RECURSIVE SortedByCount(_)
SortedByCount(items) ==
    IF items = <<>> THEN <<>>
    ELSE InsertByCount(SortedByCount(SubSeq(items, 1, Len(items) - 1)),
                       items[Len(items)])

\* the first n items in order of first appearance, not sorted by count
MostCommonUnsorted(counter, n) == Slice(counter, n)

\* Counter.most_common(n) = heapq.nlargest(n, items, key=count)
MostCommon(counter, n) == Slice(SortedByCount(counter), n)

\* word_counts = Counter(filtered_words).most_common(5)
WordCounts(filtered_words) == MostCommon(Counter(filtered_words), TOP_N)

-----------------------------------------------------------------------------
(* The environment: the PDF files a user can upload, the sheets a URL can  *)
(* name, and the answers of the summarizer.                                *)

\* A file is its name, whether PdfReader can open it, and the text that
\* page.extract_text() returns for each of its pages.
FileData == [name |-> "a.pdf", ok |-> TRUE,
             pages |-> << <<"d","a","t","a">>, <<"s","e","t">> >>]

FileNote == [name |-> "a.pdf", ok |-> TRUE,
             pages |-> << <<>>, <<"D","a","t","a"," ","i","s"," ","d","a","t","a">> >>]

FileLong == [name |-> "b.pdf", ok |-> TRUE,
             pages |-> << <<"d","a","t","a">> \o Pad(PDF_LIMIT) \o <<"l","a","t","e">>,
                          <<"L","a","t","e"," ","d","a","t","a">> >>]

FileBlank == [name |-> "e.pdf", ok |-> TRUE, pages |-> << <<>> >>]

FileCorrupt == [name |-> "c.pdf", ok |-> FALSE, pages |-> <<>>]

\* The user works either with a folder of small files, one of them
\* damaged, or with a folder that holds a file longer than the excerpt
\* (which can be uploaded more than once).
SmallFiles == {FileData, FileNote, FileBlank, FileCorrupt}

LongFiles == {FileLong}

Libraries == {"small", "long"}

FilesOf(folder) == IF folder = "small" THEN SmallFiles ELSE LongFiles

NoUrl == ""

SheetUrls == {"bad", "small", "wide"}

\* conn.read(spreadsheet=sheet_url) raises for an unreachable sheet
SheetReadable(url) == url # "bad"

\* df.to_string() of the sheet behind the URL
SheetString(url) ==
    IF url = "small" THEN <<"a",NL,"0"," ","1">>
    ELSE <<"r","o","w","s">> \o Pad(SHEET_LIMIT) \o <<"d","a","t","a">>

\* client.chat.completions.create either returns a response or raises
RETURNED == "returned"

FAILED == "raised"

Outcomes == {RETURNED, FAILED}

\* response.choices[0].message.content of the i-th call of a run: the
\* summarizer is a black box, and every call that returns gives its own text
Response(i) == <<"summary", i>>

EmptyMap == [n \in {} |-> <<>>]

\* d[k] = v on a dict
MapPut(d, k, v) == [n \in DOMAIN d \cup {k} |-> IF n = k THEN v ELSE d[n]]

NameSet(files) == { files[i].name : i \in 1..Len(files) }

-----------------------------------------------------------------------------
(* Step 1: data retrieval (lines 63-89).                                   *)

\* for page in reader.pages: text = page.extract_text();
\*     if text: raw_text += text + "\n"
RECURSIVE PagesRaw(_)
PagesRaw(pages) ==
    IF pages = <<>> THEN <<>>
    ELSE LET text == pages[Len(pages)]
             done == PagesRaw(SubSeq(pages, 1, Len(pages) - 1))
         IN  IF text # <<>> THEN done \o text \o <<NL>> ELSE done

\* for uploaded_file in uploaded_files: reader = PdfReader(uploaded_file); ...
\* PdfReader raises on a file it cannot parse, and nothing catches it: the
\* script stops there, with raw_text as accumulated so far.
RECURSIVE ExtractAll(_)
ExtractAll(files) ==
    IF files = <<>> THEN [raised |-> FALSE, text |-> <<>>]
    ELSE LET done == ExtractAll(SubSeq(files, 1, Len(files) - 1))
             file == files[Len(files)]
         IN  IF done.raised THEN done
             ELSE IF ~file.ok THEN [raised |-> TRUE, text |-> done.text]
             ELSE [raised |-> FALSE, text |-> done.text \o PagesRaw(file.pages)]

\* the branch on source_type, lines 65-89
Retrieve(src, files, url) ==
    IF src = PDF_SOURCE
    THEN LET got == ExtractAll(files)
         IN  [raised |-> got.raised, text |-> got.text, sheet_error |-> FALSE,
              extracted |-> IF got.raised THEN 0 ELSE Len(files)]
    ELSE IF url # NoUrl /\ SheetReadable(url)
         THEN [raised |-> FALSE, text |-> SheetString(url),
               sheet_error |-> FALSE, extracted |-> 0]
         ELSE [raised |-> FALSE, text |-> <<>>,
               sheet_error |-> url # NoUrl, extracted |-> 0]

\* the condition under which the run button is rendered, line 93
ButtonRendered(src, files, url) ==
    \/ src = PDF_SOURCE /\ files # <<>>
    \/ src = SHEETS_SOURCE /\ url # NoUrl

-----------------------------------------------------------------------------
(* Steps 2 and 3: the run button handler (lines 95-149).                   *)

\* add_log(message): the message kind and the document it is about
Log(kind, name) == <<kind, name>>

\* "".join([page.extract_text() for page in reader.pages if page.extract_text()])
RECURSIVE FileText(_)
FileText(pages) ==
    IF pages = <<>> THEN <<>>
    ELSE LET text == pages[Len(pages)]
             done == FileText(SubSeq(pages, 1, Len(pages) - 1))
         IN  IF text # <<>> THEN done \o text ELSE done

\* a run that does not empty the summaries of the run before
KeepSummaries(old) == old

\* st.session_state.summaries = {}
ResetSummaries(old) == EmptyMap

\* the excerpt of a PDF file placed in the prompt: file_text[:25000]
PdfExcerpt(file_text) == Slice(file_text, PDF_LIMIT)

\* the excerpt of a sheet placed in the prompt: raw_text[:30000]
SheetExcerpt(text) == Slice(text, SHEET_LIMIT)

\* an assignment that keeps an entry already stored under the name
StoreFirst(st, name, result) ==
    IF result = FAILED \/ name \in DOMAIN st.summaries
    THEN st.summaries
    ELSE MapPut(st.summaries, name, Response(Len(st.calls) + 1))

\* the try block of one document: the call, then the assignment under its
\* name, or the except branch that stores nothing
Store(st, name, result) ==
    IF result = FAILED THEN st.summaries
    ELSE MapPut(st.summaries, name, Response(Len(st.calls) + 1))

\* one iteration of "for uploaded_file in uploaded_files", lines 127-144
ProcessFile(st, file, result) ==
    IF ~file.ok
    THEN [st EXCEPT !.raised = TRUE,
                    !.logs = Append(@, Log("RESEARCHER", file.name))]
    ELSE [raised    |-> FALSE,
          summaries |-> Store(st, file.name, result),
          logs      |-> st.logs \o
                        << Log("RESEARCHER", file.name),
                           Log("ORCHESTRATOR", file.name),
                           IF result = FAILED THEN Log("ERROR", file.name)
                                              ELSE Log("EXPORT", file.name) >>,
          calls     |-> Append(st.calls,
                               [name    |-> file.name,
                                content |-> PdfExcerpt(FileText(file.pages)),
                                result  |-> result])]

\* CASE B: the batch loop; results[i] is what the i-th call does
RECURSIVE PdfPipeline(_, _, _)
PdfPipeline(st, files, results) ==
    IF files = <<>> THEN st
    ELSE LET done == PdfPipeline(st, SubSeq(files, 1, Len(files) - 1), results)
         IN  IF done.raised THEN done
             ELSE ProcessFile(done, files[Len(files)], results[Len(files)])

\* CASE A: the whole sheet as one document
SheetPipeline(st, text, result) ==
    [raised    |-> FALSE,
     summaries |-> Store(st, SHEET_NAME, result),
     logs      |-> st.logs \o
                   << Log("SYSTEM", SHEET_NAME),
                      Log("ORCHESTRATOR", SHEET_NAME),
                      IF result = FAILED THEN Log("ERROR", SHEET_NAME)
                                         ELSE Log("EXPORT", SHEET_NAME) >>,
     calls     |-> Append(st.calls,
                          [name    |-> SHEET_NAME,
                           content |-> SheetExcerpt(text),
                           result  |-> result])]

\* the body of "if st.button(...)", lines 96-149
Workflow(src, files, text, old, results) ==
    LET fresh == [raised |-> FALSE, summaries |-> ResetSummaries(old),
                  logs |-> <<>>, calls |-> <<>>]
    IN  IF src = SHEETS_SOURCE
        THEN SheetPipeline(fresh, text, results[1])
        ELSE PdfPipeline([fresh EXCEPT !.logs = <<Log("SYSTEM", "batch")>>],
                         files, results)

-----------------------------------------------------------------------------
(* Display and dashboard sections (lines 152-202).                         *)

NoDashboard == [shown |-> FALSE, chars |-> 0, total_words |-> 0,
                unique_keywords |-> 0, word_counts |-> <<>>]

\* the metrics and the chart data, all computed from raw_text
DashboardOf(text) ==
    LET words    == Words(text)
        filtered == FilterWords(words)
    IN  [shown |-> TRUE, chars |-> Len(text), total_words |-> Len(words),
         unique_keywords |-> Cardinality(Range(filtered)),
         word_counts |-> WordCounts(filtered)]

\* a dashboard computed from the excerpt of the text
DashboardOfExcerpt(text) == DashboardOf(Slice(text, PDF_LIMIT))

\* the dashboard section on raw_text
Dashboard(text) == DashboardOf(text)

\* if "summaries" in st.session_state and st.session_state.summaries
Displayed(has, sums) == has /\ sums # EmptyMap

BlankScreen == [exception |-> FALSE, extracted |-> 0, sheet_error |-> FALSE,
                button |-> FALSE, complete |-> FALSE,
                results |-> EmptyMap, dashboard |-> NoDashboard]

NoRequest == [made |-> FALSE, ids |-> {}, raw_text |-> <<>>]

-----------------------------------------------------------------------------
(* One execution of the script.                                            *)

\* The script run on the widget values (src, files, url); pressed says
\* whether the run button was clicked, results what each summarizer call
\* of this execution does.
Execute(src, files, url, pressed, results) ==
    LET got == Retrieve(src, files, url)
        run == ~got.raised /\ pressed /\ ButtonRendered(src, files, url)
        wf  == Workflow(src, files, got.text, summaries, results)
        has == IF run THEN TRUE ELSE has_summaries
        sums == IF run THEN wf.summaries ELSE summaries
        halted == got.raised \/ (run /\ wf.raised)
        show == ~halted /\ Displayed(has, sums)
    IN  /\ source_type' = src
        /\ uploaded_files' = files
        /\ sheet_url' = url
        /\ raw_text' = got.text
        /\ has_summaries' = has
        /\ summaries' = sums
        /\ logs' = IF run THEN wf.logs ELSE logs
        /\ calls' = IF run THEN wf.calls ELSE <<>>
        /\ request' = IF run
                      THEN [made |-> TRUE,
                            ids |-> IF src = SHEETS_SOURCE THEN {SHEET_NAME}
                                    ELSE NameSet(files),
                            raw_text |-> got.text]
                      ELSE request
        /\ screen' = [exception   |-> halted,
                      extracted   |-> got.extracted,
                      sheet_error |-> got.sheet_error,
                      button      |-> ~got.raised /\ ButtonRendered(src, files, url),
                      complete    |-> run /\ ~wf.raised,
                      results     |-> IF show THEN sums ELSE EmptyMap,
                      dashboard   |-> IF show THEN Dashboard(got.text)
                                      ELSE NoDashboard]
        /\ UNCHANGED <<library, arg, res>>

NoResults == [i \in 1..1 |-> FAILED]

RemoveAt(seq, i) == SubSeq(seq, 1, i - 1) \o SubSeq(seq, i + 1, Len(seq))

-----------------------------------------------------------------------------
(* User interactions.                                                      *)

\* the user adds a file to the uploader
Upload ==
    /\ source_type = PDF_SOURCE
    /\ Len(uploaded_files) < MaxFiles
    /\ \E f \in FilesOf(library) :
         Execute(source_type, Append(uploaded_files, f), sheet_url, FALSE, NoResults)

\* the user removes a file from the uploader
Remove ==
    /\ source_type = PDF_SOURCE
    /\ \E i \in 1..Len(uploaded_files) :
         Execute(source_type, RemoveAt(uploaded_files, i), sheet_url, FALSE, NoResults)

\* the user picks the other source; the widget of the source left is no
\* longer rendered and the one now rendered starts empty
ChooseSource ==
    \E s \in {PDF_SOURCE, SHEETS_SOURCE} :
        /\ s # source_type
        /\ Execute(s, <<>>, NoUrl, FALSE, NoResults)

\* the user enters, changes or clears the sheet URL
EnterUrl ==
    /\ source_type = SHEETS_SOURCE
    /\ \E u \in SheetUrls \cup {NoUrl} :
        /\ u # sheet_url
        /\ Execute(source_type, uploaded_files, u, FALSE, NoResults)

\* the user presses "Run Multi-Step Agent Workflow"
PressRun ==
    /\ screen.button
    /\ \E results \in [1..(IF source_type = SHEETS_SOURCE THEN 1
                           ELSE Len(uploaded_files)) -> Outcomes] :
         Execute(source_type, uploaded_files, sheet_url, TRUE, results)

Init ==
    /\ source_type = PDF_SOURCE
    /\ uploaded_files = <<>>
    /\ sheet_url = NoUrl
    /\ has_summaries = FALSE
    /\ summaries = EmptyMap
    /\ logs = <<>>
    /\ raw_text = <<>>
    /\ calls = <<>>
    /\ screen = BlankScreen
    /\ request = NoRequest
    /\ library \in Libraries
    /\ arg = <<>>
    /\ res = <<>>

Next == Upload \/ Remove \/ ChooseSource \/ EnterUrl \/ PressRun

Spec == Init /\ [][Next]_vars

-----------------------------------------------------------------------------
(* Harnesses for the pure functions: the input is drawn from a bounded set *)
(* and one step applies the function of the script to it.                  *)

NotApplied == [done |-> FALSE, value |-> <<>>]

AppIdle ==
    /\ source_type = PDF_SOURCE
    /\ uploaded_files = <<>>
    /\ sheet_url = NoUrl
    /\ has_summaries = FALSE
    /\ summaries = EmptyMap
    /\ logs = <<>>
    /\ raw_text = <<>>
    /\ calls = <<>>
    /\ screen = BlankScreen
    /\ request = NoRequest
    /\ library = "small"

RECURSIVE SeqsUpTo(_, _)
SeqsUpTo(S, n) ==
    IF n = 0 THEN { <<>> }
    ELSE LET shorter == SeqsUpTo(S, n - 1)
         IN  shorter \cup { Append(q, x) : q \in shorter, x \in S }

RECURSIVE Flatten(_)
Flatten(pieces) ==
    IF pieces = <<>> THEN <<>>
    ELSE pieces[1] \o Flatten(Tail(pieces))

\* Ranking: token sequences over one more word than the ranking keeps; free
\* tokens at both ends, and in the middle either nothing or every word once.
RankWords == {"data", "sets", "late", "rows", "text", "word"}

EveryWord == <<"word", "text", "rows", "late", "sets", "data">>

RankInputs ==
    { pre \o mid \o post : pre \in SeqsUpTo(RankWords, MaxTokens),
                           mid \in {<<>>, EveryWord},
                           post \in SeqsUpTo(RankWords, MaxTokens) }

RankInit == AppIdle /\ arg \in RankInputs /\ res = NotApplied

RankApply ==
    /\ ~res.done
    /\ res' = [done |-> TRUE, value |-> WordCounts(arg)]
    /\ UNCHANGED <<appVars, arg>>

RankSpec == RankInit /\ [][RankApply]_vars

\* Filtering: texts glued from words of either case, stop words, short
\* words, digits, underscores and separators.
Pieces ==
    { <<"T","h","i","s">>, <<"T","H","A","T">>, <<"w","i","t","h">>,
      <<"D","a","t","a">>, <<"d","a","t","a">>, <<"t","h","e">>,
      <<"s","e","t">>, <<"s">>, <<"_">>, <<"1">>,
      <<" ">>, <<NL>>, <<"-">> }

FilterInit ==
    /\ AppIdle
    /\ arg \in { Flatten(p) : p \in SeqsUpTo(Pieces, MaxPieces) }
    /\ res = NotApplied

FilterApply ==
    /\ ~res.done
    /\ res' = [done |-> TRUE, value |-> FilterWords(Words(arg))]
    /\ UNCHANGED <<appVars, arg>>

FilterSpec == FilterInit /\ [][FilterApply]_vars

\* Truncation: texts whose lengths lie around zero and around each limit.
Tails == { <<>>, <<"a">>, <<"d","a","t","a">>, <<"a",NL,"b">> }

TruncLengths ==
    (0..MaxOver)
        \cup { PDF_LIMIT + d : d \in (0 - MaxOver)..MaxOver }
        \cup { SHEET_LIMIT + d : d \in (0 - MaxOver)..MaxOver }

TruncInit ==
    /\ AppIdle
    /\ arg \in { [kind |-> k, text |-> Pad(n) \o t] :
                   k \in {PDF_SOURCE, SHEETS_SOURCE}, n \in TruncLengths, t \in Tails }
    /\ res = <<>>

Excerpt(kind, text) ==
    IF kind = PDF_SOURCE THEN PdfExcerpt(text) ELSE SheetExcerpt(text)

\* the excerpt of the text, then the excerpt of that excerpt
TruncApply ==
    /\ Len(res) < 2
    /\ res' = Append(res, Excerpt(arg.kind, IF res = <<>> THEN arg.text ELSE res[1]))
    /\ UNCHANGED <<appVars, arg>>

TruncSpec == TruncInit /\ [][TruncApply]_vars

-----------------------------------------------------------------------------
(* Properties of the pure functions.                                       *)

Occurrences(seq, w) == Cardinality({ i \in 1..Len(seq) : seq[i] = w })

FirstIndex(seq, w) ==
    CHOOSE i \in 1..Len(seq) : seq[i] = w /\ \A k \in 1..(i - 1) : seq[k] # w

\* C5: rank returns the TOP_N most frequent words of the filtered token
\* sequence (all of them when there are fewer), each with its exact number
\* of occurrences, ordered by count descending and, among equal counts, by
\* first appearance; no word left out has a higher count than one included.
C5_RankTopN ==
    res.done =>
        LET r        == res.value
            distinct == Range(arg)
            ranked   == { r[i][1] : i \in 1..Len(r) }
        IN  /\ Len(r) <= TOP_N
            /\ Len(r) = Min(TOP_N, Cardinality(distinct))
            /\ \A i \in 1..Len(r) :
                 /\ r[i][1] \in distinct
                 /\ r[i][2] = Occurrences(arg, r[i][1])
            /\ \A i, j \in 1..Len(r) :
                 i < j =>
                   /\ r[i][1] # r[j][1]
                   /\ \/ r[i][2] > r[j][2]
                      \/ /\ r[i][2] = r[j][2]
                         /\ FirstIndex(arg, r[i][1]) < FirstIndex(arg, r[j][1])
            /\ \A w \in distinct \ ranked :
                 \A i \in 1..Len(r) : Occurrences(arg, w) <= r[i][2]

\* a ranking that had to leave a word out and had to order by count
C5_Witness ==
    /\ res.done
    /\ Cardinality(Range(arg)) > TOP_N
    /\ Len(res.value) = TOP_N
    /\ res.value[1][1] # arg[1]

\* the maximal runs of word characters of a text, as <<first, last>>
WordRuns(text) ==
    { <<i, j>> \in (1..Len(text)) \X (1..Len(text)) :
        /\ i <= j
        /\ \A k \in i..j : IsWordChar(text[k])
        /\ (i = 1 \/ ~IsWordChar(text[i - 1]))
        /\ (j = Len(text) \/ ~IsWordChar(text[j + 1])) }

LoweredRun(text, run) == [k \in 1..(run[2] - run[1] + 1) |-> LowerChar(text[run[1] + k - 1])]

KeptRuns(text) ==
    { run \in WordRuns(text) :
        /\ run[2] - run[1] + 1 >= 4
        /\ LoweredRun(text, run) \notin stop_words }

\* C6: the filtered token sequence is exactly the lowercased word tokens of
\* the text, in text order, that are no stop word and have length >= 4.
C6_FilteredTokens ==
    res.done =>
        LET kept == KeptRuns(arg)
        IN  /\ Len(res.value) = Cardinality(kept)
            /\ \A run \in kept :
                 res.value[1 + Cardinality({ q \in kept : q[1] < run[1] })]
                     = LoweredRun(arg, run)
            /\ \A i \in 1..Len(res.value) :
                 /\ Len(res.value[i]) >= 4
                 /\ res.value[i] \notin stop_words
                 /\ Lower(res.value[i]) = res.value[i]

\* a text with a stop word in capitals that is dropped, next to a
\* capitalised word that is kept in lower case
C6_Witness ==
    /\ res.done
    /\ \E run \in WordRuns(arg) :
         /\ SubSeq(arg, run[1], run[2]) = <<"T","H","A","T">>
    /\ res.value = << <<"d","a","t","a">> >>
    /\ \E run \in WordRuns(arg) :
         /\ SubSeq(arg, run[1], run[2]) = <<"D","a","t","a">>

LimitOf(kind) == IF kind = PDF_SOURCE THEN 25000 ELSE 30000

\* C7: the excerpt is the first limit characters of the text (25000 for a
\* PDF file, 30000 for a sheet): a prefix of length min(len(text), limit),
\* the text itself when it is no longer than the limit, and unchanged by a
\* second truncation.
C7_ExcerptIsPrefix ==
    \A n \in 1..Len(res) :
        LET text  == IF n = 1 THEN arg.text ELSE res[1]
            limit == LimitOf(arg.kind)
        IN  /\ Len(res[n]) = Min(Len(text), limit)
            /\ \A i \in 1..Len(res[n]) : res[n][i] = text[i]
            /\ (Len(text) <= limit => res[n] = text)
            /\ (n = 2 => res[2] = res[1])

\* a text longer than its limit, truncated twice
C7_Witness ==
    /\ Len(res) = 2
    /\ Len(arg.text) > LimitOf(arg.kind)
    /\ Len(res[1]) = LimitOf(arg.kind)
    /\ res[1] # arg.text

-----------------------------------------------------------------------------
(* Properties of the workflow.                                             *)

FileIndexes == 1..Len(uploaded_files)

Readable(i) == uploaded_files[i].ok

\* C1: a file that cannot be opened, or whose summarization call fails,
\* never aborts the processing of the other files of the batch: the page
\* is not halted and offers the workflow while a readable file is uploaded,
\* every file whose call returned has its summary entry and the dashboard
\* is rendered, and errors are logged for the failing files only.
C1_FailureIsolation ==
    /\ (source_type = PDF_SOURCE /\ \E i \in FileIndexes : Readable(i))
           => (~screen.exception /\ screen.button)
    /\ (source_type = PDF_SOURCE /\ screen.complete) =>
           \A i \in FileIndexes :
               calls[i].result = RETURNED =>
                   /\ uploaded_files[i].name \in DOMAIN summaries
                   /\ screen.dashboard.shown
                   /\ \A k \in 1..Len(logs) :
                        logs[k] = Log("ERROR", uploaded_files[i].name) =>
                            \E j \in FileIndexes :
                                /\ uploaded_files[j].name = uploaded_files[i].name
                                /\ calls[j].result = FAILED

\* C2: with fewer than 10 characters of raw text the workflow does not
\* proceed: no summarization request is made and no run completes.
C2_ShortInputRefused ==
    Len(raw_text) < 10 => (calls = <<>> /\ ~screen.complete)

\* C3: the identifiers that have a stored summary are among the identifiers
\* of the documents ingested for the request that produced them.
C3_SummaryIdsIngested ==
    /\ DOMAIN summaries \subseteq request.ids
    /\ (summaries # EmptyMap => request.made)

\* a request of two documents of which only one got its summary
C3_Witness ==
    /\ request.made
    /\ summaries # EmptyMap
    /\ Cardinality(request.ids) = 2
    /\ DOMAIN summaries # request.ids

\* the texts the current source consists of: every page of every uploaded
\* file that has text, or the sheet; named by <<file, page>>, <<0, 0>> for the sheet
SourcePieces ==
    IF source_type = PDF_SOURCE
    THEN { <<i, p>> \in FileIndexes \X (1..3) :
             /\ Readable(i)
             /\ p <= Len(uploaded_files[i].pages)
             /\ uploaded_files[i].pages[p] # <<>> }
    ELSE IF sheet_url # NoUrl /\ SheetReadable(sheet_url) THEN { <<0, 0>> } ELSE {}

PieceText(x) ==
    IF x = <<0, 0>> THEN SheetString(sheet_url)
    ELSE uploaded_files[x[1]].pages[x[2]]

\* characters a piece adds to the raw text
PieceChars(x) == Len(PieceText(x)) + (IF x = <<0, 0>> THEN 0 ELSE 1)

\* number of words of a piece: the positions where a run of word characters begins
PieceWords(x) ==
    LET text == PieceText(x)
    IN  Cardinality({ i \in 1..Len(text) :
                        /\ IsWordChar(text[i])
                        /\ (i = 1 \/ ~IsWordChar(text[i - 1])) })

\* number of times word w stands in text as a whole word, in any case
WholeWordCount(text, w) ==
    Cardinality({ i \in 1..(Len(text) - Len(w) + 1) :
                    /\ LowerChar(text[i]) = w[1]
                    /\ \A k \in 1..Len(w) : LowerChar(text[i + k - 1]) = w[k]
                    /\ (i = 1 \/ ~IsWordChar(text[i - 1]))
                    /\ (i + Len(w) - 1 = Len(text) \/ ~IsWordChar(text[i + Len(w)])) })

RECURSIVE TotalChars(_)
TotalChars(S) ==
    IF S = {} THEN 0
    ELSE LET x == CHOOSE y \in S : TRUE
         IN  PieceChars(x) + TotalChars(S \ {x})

RECURSIVE TotalWords(_)
TotalWords(S) ==
    IF S = {} THEN 0
    ELSE LET x == CHOOSE y \in S : TRUE
         IN  PieceWords(x) + TotalWords(S \ {x})

RECURSIVE TotalCount(_, _)
TotalCount(S, w) ==
    IF S = {} THEN 0
    ELSE LET x == CHOOSE y \in S : TRUE
         IN  WholeWordCount(PieceText(x), w) + TotalCount(S \ {x}, w)

\* C4: the character count, the word count and the keyword counts of the
\* dashboard are those of the full text of all documents of the source
\* together, whatever part of it the excerpts cover.
C4_DashboardOverFullText ==
    screen.dashboard.shown =>
        LET d == screen.dashboard
        IN  /\ d.chars = TotalChars(SourcePieces)
            /\ d.total_words = TotalWords(SourcePieces)
            /\ \A k \in 1..Len(d.word_counts) :
                 d.word_counts[k][2] = TotalCount(SourcePieces, d.word_counts[k][1])

\* two documents cut by the excerpt: "late" stands only beyond the cut and
\* is ranked, and both words are counted over all pages of both documents
C4_Witness ==
    /\ screen.dashboard.shown
    /\ screen.complete
    /\ Len(uploaded_files) = 2
    /\ \E i \in 1..Len(calls) :
         /\ Len(calls[i].content) = PDF_LIMIT
         /\ WholeWordCount(calls[i].content, <<"l","a","t","e">>) = 0
    /\ screen.dashboard.word_counts =
           << << <<"d","a","t","a">>, 4 >>, << <<"l","a","t","e">>, 4 >> >>

\* the page texts that are not empty, with a newline between them
RECURSIVE JoinedPages(_)
JoinedPages(pages) ==
    IF pages = <<>> THEN <<>>
    ELSE LET rest == JoinedPages(Tail(pages))
         IN  IF pages[1] = <<>> THEN rest
             ELSE IF rest = <<>> THEN pages[1]
             ELSE pages[1] \o <<NL>> \o rest

\* C8: wherever the text of a PDF is extracted, it is the texts of its
\* pages in page order with a newline between them, empty pages skipped:
\* in the text summarized for the file and in the text of the dashboard
\* (where a newline may also end the document).
C8_PagesJoinedByNewline ==
    source_type = PDF_SOURCE =>
        /\ \A i \in 1..Len(calls) :
             calls[i].content = Slice(JoinedPages(uploaded_files[i].pages), 25000)
        /\ (Len(uploaded_files) = 1 /\ Readable(1)) =>
             \/ raw_text = JoinedPages(uploaded_files[1].pages)
             \/ raw_text = JoinedPages(uploaded_files[1].pages) \o <<NL>>

\* C9: after a run over a batch, an identifier borne by several files holds
\* the summary of the last of them whose call returned, nothing when none
\* returned, and the run raised no error.
C9_LastWriteWins ==
    (source_type = PDF_SOURCE /\ screen.complete) =>
        /\ ~screen.exception
        /\ Len(calls) = Len(uploaded_files)
        /\ \A n \in NameSet(uploaded_files) :
             LET wins == { i \in FileIndexes :
                             uploaded_files[i].name = n /\ calls[i].result = RETURNED }
             IN  IF wins = {} THEN n \notin DOMAIN summaries
                 ELSE /\ n \in DOMAIN summaries
                      /\ \E i \in wins :
                           /\ \A k \in wins : k <= i
                           /\ summaries[n] = Response(i)

\* two different files of one name, both summarized: the second one stays
C9_Witness ==
    /\ source_type = PDF_SOURCE
    /\ screen.complete
    /\ Len(uploaded_files) = 2
    /\ uploaded_files[1].name = uploaded_files[2].name
    /\ uploaded_files[1] # uploaded_files[2]
    /\ calls[1].result = RETURNED
    /\ calls[2].result = RETURNED
    /\ summaries = [n \in {uploaded_files[2].name} |-> Response(2)]

\* C10: when summaries and dashboard are on the page together, the
\* dashboard is computed from the raw text the summaries were made from.
C10_DashboardMatchesSummaries ==
    screen.dashboard.shown => (request.made /\ raw_text = request.raw_text)

====
